---- MODULE Spec2Model ----
(***************************************************************************)
(* Model of evidently/ui/workspace/remote.py: the HTTP transport           *)
(* (RemoteBase), the metadata adapter (RemoteMetadataStorage), the no-op   *)
(* blob storage (NoopBlobStorage) and the workspace facade                 *)
(* (RemoteWorkspaceView).                                                  *)
(*                                                                         *)
(* Every adapter operation is one action.  The remote service is the       *)
(* environment: each action draws the response(s) of the remote from a     *)
(* small set.  The variable wire records, for the most recent call, the    *)
(* requests put on the wire and the replies read from it, in order.        *)
(***************************************************************************)
EXTENDS Integers, Sequences, FiniteSets, TLC

VARIABLES secret, op, args, wire, result, blob

vars == <<secret, op, args, wire, result, blob>>

-----------------------------------------------------------------------------
(* Bounds and input sets *)

\* longest snapshot list the remote answers with
MaxLen == 2

ProjectIDs == {"p1", "p2"}
SnapshotIDs == {"s1", "s2"}
\* contents of a project as stored by the remote (distinguishes two fetches)
Names == {"n1", "n2"}
BlobIDs == {"b1", ""}

\* Python's None for optional strings
None == "<None>"
Secrets == {None, "", "abc"}

BaseUrl == "http://svc:8000"
SECRET_HEADER_NAME == "evidently-secret"
EVIDENTLY_APPLICATION_NAME == "Evidently service"
ZERO_UUID == "00000000-0000-0000-0000-000000000000"
Teams == {None, ZERO_UUID, "t1"}

-----------------------------------------------------------------------------
(* JSON bodies.  A body is text that is not JSON, a JSON array, or a JSON   *)
(* object, given by its fields.                                            *)

NoFields == [f \in {} |-> ""]

NotJson == [kind |-> "notjson", fields |-> NoFields, items |-> <<>>]
Obj(f) == [kind |-> "object", fields |-> f, items |-> <<>>]
Arr(s) == [kind |-> "array", fields |-> NoFields, items |-> s]

\* a detail that is not a JSON string (a list of validation errors, say)
NonStringDetail == "<non-string detail>"
Details == {"project not found", "Project not found", "server exploded", NonStringDetail}

ProjectJson(pid, n) == Obj([id |-> pid, name |-> n])
SnapshotJson(sid) == Obj([id |-> sid])
\* an object that validates against no model
BadJson == Obj([junk |-> "x"])

ErrorBodies == {NotJson, Arr(<<>>), Obj(NoFields)} \cup {Obj([detail |-> d]) : d \in Details}

\* a reply of the remote; net = FALSE is a connection failure (no reply read)
Reply(st, b) == [net |-> TRUE, status |-> st, body |-> b]
ConnectionFailure == [net |-> FALSE, status |-> 0, body |-> NotJson]

ErrorReplies ==
    {Reply(404, b) : b \in ErrorBodies}
        \cup {Reply(500, b) : b \in {NotJson, Obj([detail |-> "project not found"])}}
        \cup {ConnectionFailure}

SeqUpTo(S, n) == UNION {[1..k -> S] : k \in 0..n}

ProjectReplies(pid) == ErrorReplies \cup {Reply(200, b) : b \in {NotJson, BadJson} \cup {ProjectJson(pid, n) : n \in Names}}
ProjectListReplies == ErrorReplies \cup {Reply(200, b) : b \in {NotJson, BadJson} \cup {Arr(s) : s \in SeqUpTo({ProjectJson("p1", "n1"), BadJson}, 1)}}
\* the failures drawn for the second request of a two-request operation
SnapshotErrorReplies ==
    {ConnectionFailure, Reply(404, NotJson), Reply(404, Obj(NoFields)), Reply(500, Obj([detail |-> "server exploded"]))}

SnapshotReplies(sid) == SnapshotErrorReplies \cup {Reply(200, b) : b \in {NotJson, BadJson, SnapshotJson(sid)}}
SnapshotListReplies ==
    SnapshotErrorReplies \cup {Reply(200, b) : b \in {NotJson, BadJson, Arr(<<BadJson>>)}
                                        \cup {Arr(s) : s \in SeqUpTo({SnapshotJson(i) : i \in SnapshotIDs}, MaxLen)}}
RawReplies == ErrorReplies \cup {Reply(200, b) : b \in {NotJson, Obj(NoFields)}}
VersionReplies == ErrorReplies \cup {Reply(200, b) : b \in {NotJson, Arr(<<>>), Obj(NoFields), Obj([application |-> EVIDENTLY_APPLICATION_NAME]), Obj([application |-> "other"])}}

-----------------------------------------------------------------------------
(* Outcomes of a call: a returned value or a raised exception *)

Return(k, v) == [kind |-> k, exc |-> "", arg |-> "", value |-> v]
Raise(cls, a) == [kind |-> "raise", exc |-> cls, arg |-> a, value |-> <<>>]

\* the classes an exception class inherits from (itself included)
Bases(cls) ==
    CASE cls = "requests.HTTPError" -> {cls, "requests.RequestException", "OSError"}
      [] cls = "requests.ConnectionError" -> {cls, "requests.RequestException", "OSError"}
      [] cls = "requests.JSONDecodeError" -> {cls, "json.JSONDecodeError", "ValueError", "requests.RequestException", "OSError"}
      [] cls = "urllib.error.HTTPError" -> {cls, "urllib.error.URLError", "OSError"}
      [] cls = "pydantic.ValidationError" -> {cls, "ValueError"}
      [] cls = "KeyError" -> {cls, "LookupError"}
      [] OTHER -> {cls}

\* the error classes of evidently.ui.errors
ServiceErrorBases(cls) ==
    CASE cls = "ProjectNotFound" -> {cls, "EvidentlyServiceError"}
      [] OTHER -> {cls}

\* does "except (classes)" catch the raised outcome o
Catches(classes, o) ==
    /\ o.kind = "raise"
    /\ (Bases(o.exc) \cup ServiceErrorBases(o.exc)) \cap classes # {}

-----------------------------------------------------------------------------
(* Transport: RemoteBase *)

NoHeaders == [h \in {} |-> ""]
NoParams == [q \in {} |-> ""]

\* RemoteBase._prepare_request: the Request object built for a call
RemoteBase_prepare_request(path, method, query_params, body, headers, form_data) ==
    LET hd == IF body # None /\ ~form_data
              THEN [h \in DOMAIN headers \cup {"Content-Type"} |->
                       IF h = "Content-Type" THEN "application/json" ELSE headers[h]]
              ELSE headers
    IN [method |-> method, url |-> <<BaseUrl>> \o path, params |-> query_params,
        data |-> body, headers |-> hd]

\* _prepare_request testing the secret for truth instead of "is not None"
_prepare_request_truthy(sec, path, method, query_params, body, headers, form_data) ==
    LET r == RemoteBase_prepare_request(path, method, query_params, body, headers, form_data)
    IN IF sec # None /\ sec # ""
       THEN [r EXCEPT !.headers = [h \in DOMAIN r.headers \cup {SECRET_HEADER_NAME} |->
                                      IF h = SECRET_HEADER_NAME THEN sec ELSE r.headers[h]]]
       ELSE r

\* RemoteMetadataStorage._prepare_request: adds the secret header
_prepare_request(sec, path, method, query_params, body, headers, form_data) ==
    LET r == RemoteBase_prepare_request(path, method, query_params, body, headers, form_data)
    IN IF sec # None
       THEN [r EXCEPT !.headers = [h \in DOMAIN r.headers \cup {SECRET_HEADER_NAME} |->
                                      IF h = SECRET_HEADER_NAME THEN sec ELSE r.headers[h]]]
       ELSE r

NoReply == [net |-> FALSE, status |-> -1, body |-> NotJson]
SendEv(r) == [ev |-> "send", req |-> r, reply |-> NoReply]
RecvEv(r, rep) == [ev |-> "recv", req |-> r, reply |-> rep]

\* send as it would be with a retry: a failed request is sent once more
send_retry(r, rep) ==
    IF ~rep.net \/ rep.status >= 400
    THEN <<SendEv(r), RecvEv(r, rep), SendEv(r), RecvEv(r, rep)>>
    ELSE <<SendEv(r), RecvEv(r, rep)>>

\* Session().send(request.prepare()): one request on the wire, one reply
\* (or a connection failure) read back
send(r, rep) == <<SendEv(r), RecvEv(r, rep)>>

\* Response.json(): the decoded body, or requests' JSONDecodeError
json(rep) ==
    IF rep.body.kind = "notjson" THEN Raise("requests.JSONDecodeError", "") ELSE Return("json", rep.body)

NoProject == [id |-> None, name |-> None]

ValidAs(model, b) ==
    CASE model = "Project" -> b.kind = "object" /\ {"id", "name"} \subseteq DOMAIN b.fields
      [] model = "SnapshotMetadata" -> b.kind = "object" /\ "id" \in DOMAIN b.fields
      [] OTHER -> FALSE

ParseAs(model, b) ==
    CASE model = "Project" -> [id |-> b.fields.id, name |-> b.fields.name]
      [] model = "SnapshotMetadata" -> [id |-> b.fields.id, project |-> NoProject]

ItemModel(model) == IF model = "List[Project]" THEN "Project" ELSE "SnapshotMetadata"

\* parse_obj_as(response_model, data): the typed value, or a validation error
parse_obj_as(model, b) ==
    IF model \in {"List[Project]", "List[SnapshotMetadata]"}
    THEN IF b.kind = "array" /\ \A i \in DOMAIN b.items : ValidAs(ItemModel(model), b.items[i])
         THEN Return(model, [i \in DOMAIN b.items |-> ParseAs(ItemModel(model), b.items[i])])
         ELSE Raise("pydantic.ValidationError", "")
    ELSE IF ValidAs(model, b)
         THEN Return(model, ParseAs(model, b))
         ELSE Raise("pydantic.ValidationError", "")

\* the try block of _request: response.json()["detail"], then raise
inspect_detail(rep) ==
    LET j == json(rep)
    IN IF j.kind = "raise" THEN j
       ELSE IF rep.body.kind # "object" THEN Raise("TypeError", "")
       ELSE IF "detail" \notin DOMAIN rep.body.fields THEN Raise("KeyError", "detail")
       ELSE Raise("EvidentlyServiceError", rep.body.fields.detail)

\* Response.raise_for_status()
raise_for_status(rep) ==
    IF rep.status >= 400 THEN Raise("requests.HTTPError", "") ELSE Return("None", <<>>)

\* the outcome of RemoteBase._request once the reply rep has been read
request_outcome(response_model, rep) ==
    IF ~rep.net THEN Raise("requests.ConnectionError", "")
    ELSE LET e == inspect_detail(rep)
         IN IF rep.status >= 400 /\ ~Catches({"ValueError"}, e) THEN e
            ELSE IF raise_for_status(rep).kind = "raise" THEN raise_for_status(rep)
            ELSE IF response_model # None
                 THEN IF json(rep).kind = "raise" THEN json(rep)
                      ELSE parse_obj_as(response_model, rep.body)
                 ELSE Return("Response", rep)

\* RemoteBase._request: outcome and the traffic it caused
_request(sec, path, method, query_params, body, response_model, rep) ==
    LET r == _prepare_request(sec, path, method, query_params, body, NoHeaders, FALSE)
    IN [out |-> request_outcome(response_model, rep), log |-> send(r, rep)]

-----------------------------------------------------------------------------
(* Metadata adapter: RemoteMetadataStorage *)

Call(o, l) == [out |-> o, log |-> l]

add_project(sec, team, rep) ==
    LET params == IF team # None /\ team # ZERO_UUID THEN [team_id |-> team] ELSE NoParams
    IN _request(sec, <<"api", "projects">>, "POST", params, "project.dict()", "Project", rep)

\* does the caught exception carry the response it was raised for
HasResponse(o) == "requests.RequestException" \in Bases(o.exc)

\* the except branch of get_project, entered with the caught error e
get_project_handler(e, rep) ==
    IF ~HasResponse(e) THEN e
    ELSE IF json(rep).kind = "raise" THEN e
    ELSE IF /\ "detail" \in DOMAIN rep.body.fields
            /\ rep.body.fields.detail = "project not found"
         THEN Return("None", <<>>)
         ELSE e

\* get_project with a handler that catches every error and answers None
get_project_swallow(sec, project_id, rep) ==
    LET r == _request(sec, <<"api", "projects", project_id, "info">>, "GET", NoParams, None, "Project", rep)
    IN IF r.out.kind = "raise" THEN Call(Return("None", <<>>), r.log) ELSE r

get_project(sec, project_id, rep) ==
    LET r == _request(sec, <<"api", "projects", project_id, "info">>, "GET", NoParams, None, "Project", rep)
    IN IF Catches({"urllib.error.HTTPError"}, r.out)
       THEN Call(get_project_handler(r.out, rep), r.log)
       ELSE r

delete_project(sec, project_id, rep) ==
    _request(sec, <<"api", "projects", project_id>>, "DELETE", NoParams, None, None, rep)

list_projects(sec, rep) ==
    _request(sec, <<"api", "projects">>, "GET", NoParams, None, "List[Project]", rep)

add_snapshot(sec, project_id, rep) ==
    _request(sec, <<"api", "projects", project_id, "snapshots">>, "POST", NoParams, "snapshot.dict()", None, rep)

delete_snapshot(sec, project_id, snapshot_id, rep) ==
    _request(sec, <<"api", "projects", project_id, snapshot_id>>, "DELETE", NoParams, None, None, rep)

search_project(sec, project_name, rep) ==
    _request(sec, <<"api", "projects", "search", project_name>>, "GET", NoParams, None, "List[Project]", rep)

\* SnapshotMetadata.bind(project): sets the parent binding, returns the metadata
bind(sm, project) == [sm EXCEPT !.project = project]

\* list_snapshots asking for the snapshots before it looks at the project
list_snapshots_eager(sec, project_id, rep1, rep2) ==
    LET g == get_project(sec, project_id, rep1)
        r == _request(sec, <<"api", "projects", project_id, "snapshots">>, "GET", NoParams, None,
                      "List[SnapshotMetadata]", rep2)
    IN IF g.out.kind = "raise" THEN Call(g.out, g.log \o r.log)
       ELSE IF g.out.kind = "None" THEN Call(Raise("ProjectNotFound", ""), g.log \o r.log)
       ELSE IF r.out.kind = "raise" THEN Call(r.out, g.log \o r.log)
       ELSE Call(Return("List[SnapshotMetadata]",
                        [i \in DOMAIN r.out.value |-> bind(r.out.value[i], g.out.value)]),
                 g.log \o r.log)

\* list_snapshots handing the parsed metadata back without binding it
list_snapshots_unbound(sec, project_id, rep1, rep2) ==
    LET g == get_project(sec, project_id, rep1)
        r == _request(sec, <<"api", "projects", project_id, "snapshots">>, "GET", NoParams, None,
                      "List[SnapshotMetadata]", rep2)
    IN IF g.out.kind = "raise" THEN g
       ELSE IF g.out.kind = "None" THEN Call(Raise("ProjectNotFound", ""), g.log)
       ELSE Call(r.out, g.log \o r.log)

list_snapshots(sec, project_id, rep1, rep2) ==
    LET g == get_project(sec, project_id, rep1)
        r == _request(sec, <<"api", "projects", project_id, "snapshots">>, "GET", NoParams, None,
                      "List[SnapshotMetadata]", rep2)
    IN IF g.out.kind = "raise" THEN g
       ELSE IF g.out.kind = "None" THEN Call(Raise("ProjectNotFound", ""), g.log)
       ELSE IF r.out.kind = "raise" THEN Call(r.out, g.log \o r.log)
       ELSE Call(Return("List[SnapshotMetadata]",
                        [i \in DOMAIN r.out.value |-> bind(r.out.value[i], g.out.value)]),
                 g.log \o r.log)

get_snapshot_metadata(sec, project_id, snapshot_id, rep1, rep2) ==
    LET g == get_project(sec, project_id, rep1)
        r == _request(sec, <<"api", "projects", project_id, snapshot_id, "metadata">>, "GET", NoParams, None,
                      "SnapshotMetadata", rep2)
    IN IF g.out.kind = "raise" THEN g
       ELSE IF g.out.kind = "None" THEN Call(Raise("ProjectNotFound", ""), g.log)
       ELSE IF r.out.kind = "raise" THEN Call(r.out, g.log \o r.log)
       ELSE Call(Return("SnapshotMetadata", bind(r.out.value, g.out.value)), g.log \o r.log)

update_project(sec, project_id, rep) ==
    _request(sec, <<"api", "projects", project_id, "info">>, "POST", NoParams, "project.dict()", "Project", rep)

reload_snapshots(sec, project_id, rep) ==
    LET r == _request(sec, <<"api", "projects", project_id, "reload">>, "GET", NoParams, None, None, rep)
    IN IF r.out.kind = "raise" THEN r ELSE Call(Return("None", <<>>), r.log)

-----------------------------------------------------------------------------
(* Workspace facade: RemoteWorkspaceView *)

\* the body of the try block of verify
verify_try(r, rep) ==
    IF r.out.kind = "raise" THEN r.out
    ELSE IF json(rep).kind = "raise" THEN json(rep)
    ELSE IF rep.body.kind # "object" THEN Raise("TypeError", "")
    ELSE IF "application" \notin DOMAIN rep.body.fields THEN Raise("KeyError", "application")
    ELSE IF rep.body.fields.application # EVIDENTLY_APPLICATION_NAME THEN Raise("AssertionError", "")
    ELSE Return("None", <<>>)

verify(sec, rep) ==
    LET r == _request(sec, <<"api", "version">>, "GET", NoParams, None, None, rep)
        t == verify_try(r, rep)
    IN IF Catches({"urllib.error.HTTPError", "json.JSONDecodeError", "KeyError", "AssertionError"}, t)
       THEN Call(Raise("ValueError", BaseUrl), r.log)
       ELSE Call(t, r.log)

-----------------------------------------------------------------------------
(* State machine *)

NoArgs == [project_id |-> None, snapshot_id |-> None, name |-> None, team |-> None, id |-> None]
\* no open_blob scope has been entered yet
NoScope == [scope |-> "none", closed |-> FALSE, data |-> <<>>, pos |-> 0, exit |-> "none"]

Init ==
    /\ secret \in Secrets
    /\ op = "init"
    /\ args = NoArgs
    /\ wire = <<>>
    /\ result = Return("None", <<>>)
    /\ blob = NoScope

\* an adapter call c completed by operation name o with arguments a
Done(o, a, c) ==
    /\ blob.scope # "inside"
    /\ op' = o
    /\ args' = a
    /\ wire' = c.log
    /\ result' = c.out
    /\ UNCHANGED <<secret, blob>>

AddProject ==
    \E team \in Teams, rep \in ProjectReplies("p1") :
        Done("add_project", [NoArgs EXCEPT !.team = team], add_project(secret, team, rep))

GetProject ==
    \E pid \in ProjectIDs : \E rep \in ProjectReplies(pid) :
        Done("get_project", [NoArgs EXCEPT !.project_id = pid], get_project(secret, pid, rep))

DeleteProject ==
    \E pid \in ProjectIDs, rep \in RawReplies :
        Done("delete_project", [NoArgs EXCEPT !.project_id = pid], delete_project(secret, pid, rep))

ListProjects ==
    \E rep \in ProjectListReplies :
        Done("list_projects", NoArgs, list_projects(secret, rep))

AddSnapshot ==
    \E pid \in ProjectIDs, rep \in RawReplies :
        Done("add_snapshot", [NoArgs EXCEPT !.project_id = pid], add_snapshot(secret, pid, rep))

DeleteSnapshot ==
    \E pid \in ProjectIDs, sid \in SnapshotIDs, rep \in RawReplies :
        Done("delete_snapshot", [NoArgs EXCEPT !.project_id = pid, !.snapshot_id = sid],
             delete_snapshot(secret, pid, sid, rep))

SearchProject ==
    \E n \in Names, rep \in ProjectListReplies :
        Done("search_project", [NoArgs EXCEPT !.name = n], search_project(secret, n, rep))

ListSnapshots ==
    \E pid \in ProjectIDs : \E rep1 \in ProjectReplies(pid), rep2 \in SnapshotListReplies :
        Done("list_snapshots", [NoArgs EXCEPT !.project_id = pid], list_snapshots(secret, pid, rep1, rep2))

GetSnapshotMetadata ==
    \E pid \in ProjectIDs, sid \in SnapshotIDs : \E rep1 \in ProjectReplies(pid), rep2 \in SnapshotReplies(sid) :
        Done("get_snapshot_metadata", [NoArgs EXCEPT !.project_id = pid, !.snapshot_id = sid],
             get_snapshot_metadata(secret, pid, sid, rep1, rep2))

UpdateProject ==
    \E pid \in ProjectIDs : \E rep \in ProjectReplies(pid) :
        Done("update_project", [NoArgs EXCEPT !.project_id = pid], update_project(secret, pid, rep))

ReloadSnapshots ==
    \E pid \in ProjectIDs, rep \in RawReplies :
        Done("reload_snapshots", [NoArgs EXCEPT !.project_id = pid], reload_snapshots(secret, pid, rep))

\* RemoteWorkspaceView.__init__: composes the adapters, then verify()
NewRemoteWorkspaceView ==
    \E rep \in VersionReplies :
        LET c == verify(secret, rep)
        IN /\ blob.scope # "inside"
           /\ op' = "RemoteWorkspaceView"
           /\ args' = NoArgs
           /\ wire' = c.log
           /\ result' = IF c.out.kind = "raise" THEN c.out ELSE Return("RemoteWorkspaceView", <<>>)
           /\ UNCHANGED <<secret, blob>>

-----------------------------------------------------------------------------
(* No-op blob storage: NoopBlobStorage.open_blob, a generator-based context  *)
(* manager.  Entering runs it up to the yield; leaving resumes it after the *)
(* yield (normal exit) or throws the body's exception into it at the yield. *)

\* io.BytesIO(b""): a fresh open stream over no bytes
BytesIO(data) == [closed |-> FALSE, data |-> data, pos |-> 0]

\* open_blob(id) run up to its yield: the scope is entered with a new stream
open_blob(id) ==
    LET f == BytesIO(<<>>)
    IN [scope |-> "inside", closed |-> f.closed, data |-> f.data, pos |-> f.pos, exit |-> "none"]

\* the generator resumed after the yield: it runs off its end
open_blob_resume(b) == [b EXCEPT !.scope = "exited", !.exit = "normal"]

\* the body's exception thrown into the generator at the yield: nothing
\* handles it there, it propagates
open_blob_throw(b) == [b EXCEPT !.scope = "exited", !.exit = "exception"]

OpenBlobEnter ==
    \E id \in BlobIDs :
        /\ blob.scope # "inside"
        /\ blob' = open_blob(id)
        /\ op' = "open_blob"
        /\ args' = [NoArgs EXCEPT !.id = id]
        /\ wire' = <<>>
        /\ result' = Return("BytesIO", <<>>)
        /\ UNCHANGED secret

\* stream.read() inside the scope: the bytes from pos to the end
BlobRead ==
    /\ blob.scope = "inside"
    /\ ~blob.closed
    /\ op' = "read"
    /\ result' = Return("bytes", SubSeq(blob.data, blob.pos + 1, Len(blob.data)))
    /\ blob' = [blob EXCEPT !.pos = Len(blob.data)]
    /\ UNCHANGED <<secret, args, wire>>

OpenBlobExit ==
    /\ blob.scope = "inside"
    /\ blob' = open_blob_resume(blob)
    /\ op' = "open_blob.exit"
    /\ result' = Return("None", <<>>)
    /\ UNCHANGED <<secret, args, wire>>

OpenBlobExitByException ==
    /\ blob.scope = "inside"
    /\ blob' = open_blob_throw(blob)
    /\ op' = "open_blob.exit"
    /\ result' = Raise("RuntimeError", "raised in the scope body")
    /\ UNCHANGED <<secret, args, wire>>

Next ==
    \/ AddProject
    \/ GetProject
    \/ DeleteProject
    \/ ListProjects
    \/ AddSnapshot
    \/ DeleteSnapshot
    \/ SearchProject
    \/ ListSnapshots
    \/ GetSnapshotMetadata
    \/ UpdateProject
    \/ ReloadSnapshots
    \/ NewRemoteWorkspaceView
    \/ OpenBlobEnter
    \/ BlobRead
    \/ OpenBlobExit
    \/ OpenBlobExitByException

Spec == Init /\ [][Next]_vars

-----------------------------------------------------------------------------
(* Properties *)

\* the reply read for the n-th request of the most recent call
ReplyNo(n) == wire[2 * n].reply
Answered(n) == Len(wire) >= 2 * n

HasDetail(rep) == rep.net /\ rep.body.kind = "object" /\ "detail" \in DOMAIN rep.body.fields
IsProjectNotFound(rep) == HasDetail(rep) /\ rep.body.fields.detail = "project not found"
Failed(rep) == ~rep.net \/ rep.status >= 400

InfoUrl(pid) == <<BaseUrl, "api", "projects", pid, "info">>
SnapshotUrls(pid) ==
    {<<BaseUrl, "api", "projects", pid, "snapshots">>}
        \cup {<<BaseUrl, "api", "projects", pid, sid, "metadata">> : sid \in SnapshotIDs}

SnapshotOps == {"list_snapshots", "get_snapshot_metadata"}
SingleRequestOps ==
    {"add_project", "get_project", "delete_project", "list_projects", "add_snapshot", "delete_snapshot",
     "search_project", "update_project", "reload_snapshots", "RemoteWorkspaceView"}
\* the operations whose outcome is the outcome of _request itself
PlainRequestOps ==
    {"add_project", "delete_project", "list_projects", "add_snapshot", "delete_snapshot",
     "search_project", "update_project"}

\* C1: when the remote answers the project-info request of get_project with
\* 404 and the detail "project not found", get_project returns None and
\* does not raise.
C1_NotFoundIsAbsence ==
    (op = "get_project" /\ Answered(1) /\ ReplyNo(1).status = 404 /\ IsProjectNotFound(ReplyNo(1)))
        => result.kind = "None"

\* C2: when the project-info request of get_project fails for any reason
\* other than a "project not found" detail, get_project raises and does not
\* return None.
C2_OtherFailuresRaise ==
    (op = "get_project" /\ Answered(1) /\ Failed(ReplyNo(1)) /\ ~IsProjectNotFound(ReplyNo(1)))
        => result.kind = "raise"

C2_Witness ==
    /\ op = "get_project"
    /\ Answered(1)
    /\ ReplyNo(1).status = 404
    /\ HasDetail(ReplyNo(1))
    /\ ReplyNo(1).body.fields.detail = "Project not found"
    /\ result = Raise("EvidentlyServiceError", "Project not found")

\* C3: within one call of list_snapshots or get_snapshot_metadata the
\* project-info request is sent and answered before any snapshot request,
\* and a snapshot request is sent only if that answer yielded a project.
C3_ProjectBeforeSnapshot ==
    op \in SnapshotOps =>
        \A i \in DOMAIN wire :
            (wire[i].ev = "send" /\ wire[i].req.url \in SnapshotUrls(args.project_id)) =>
                /\ i = 3
                /\ wire[1].ev = "send"
                /\ wire[1].req.method = "GET"
                /\ wire[1].req.url = InfoUrl(args.project_id)
                /\ wire[2].ev = "recv"
                /\ wire[2].req = wire[1].req
                /\ ~Failed(wire[2].reply)
                /\ ValidAs("Project", wire[2].reply.body)

C3_Witness ==
    /\ op = "list_snapshots"
    /\ Len(wire) = 4
    /\ wire[3].ev = "send"
    /\ wire[3].req.url \in SnapshotUrls(args.project_id)
    /\ result.kind = "List[SnapshotMetadata]"

\* C4: list_snapshots and get_snapshot_metadata for a project the remote
\* reports as not existing (404, detail "project not found") end by raising
\* ProjectNotFound.
C4_NotFoundRaisesProjectNotFound ==
    (op \in SnapshotOps /\ Answered(1) /\ ReplyNo(1).status = 404 /\ IsProjectNotFound(ReplyNo(1)))
        => (result.kind = "raise" /\ result.exc = "ProjectNotFound")

\* C5: for a reply with status >= 400, _request raises the service error
\* carrying the detail when the body is JSON with a detail field, and the
\* generic HTTP error in every other case.
C5_ErrorReplyOutcome ==
    (op \in PlainRequestOps /\ Answered(1) /\ ReplyNo(1).net /\ ReplyNo(1).status >= 400)
        => IF HasDetail(ReplyNo(1))
           THEN result = Raise("EvidentlyServiceError", ReplyNo(1).body.fields.detail)
           ELSE result.kind = "raise" /\ "requests.HTTPError" \in Bases(result.exc)

HandshakeOk(rep) ==
    /\ ~Failed(rep)
    /\ rep.body.kind = "object"
    /\ "application" \in DOMAIN rep.body.fields
    /\ rep.body.fields.application = EVIDENTLY_APPLICATION_NAME

\* C6: constructing RemoteWorkspaceView fails with the ValueError naming the
\* base URL whenever the version handshake fails, and an instance is
\* returned only after the remote reported the expected application.
C6_ConstructionVerified ==
    (op = "RemoteWorkspaceView" /\ Answered(1)) =>
        /\ ~HandshakeOk(ReplyNo(1)) => result = Raise("ValueError", BaseUrl)
        /\ result.kind = "RemoteWorkspaceView" => HandshakeOk(ReplyNo(1))

HasSecretHeader(r) == SECRET_HEADER_NAME \in DOMAIN r.headers

\* C8: every request the adapter prepares carries the secret header with the
\* configured secret when a secret is configured, and no secret header when
\* none is configured.
C8_SecretHeader ==
    \A i \in DOMAIN wire :
        wire[i].ev = "send" =>
            IF secret # None
            THEN HasSecretHeader(wire[i].req) /\ wire[i].req.headers[SECRET_HEADER_NAME] = secret
            ELSE ~HasSecretHeader(wire[i].req)

C8_Witness ==
    /\ secret = ""
    /\ op = "add_project"
    /\ Len(wire) = 2
    /\ DOMAIN wire[1].req.headers = {"Content-Type", SECRET_HEADER_NAME}
    /\ wire[1].req.headers[SECRET_HEADER_NAME] = ""

\* C9: every SnapshotMetadata returned by list_snapshots or
\* get_snapshot_metadata is bound to the Project fetched by the project-info
\* request of the same call, and the returned list keeps the order and
\* length of the remote's list.
C9_BoundToFetchedProject ==
    /\ (op = "list_snapshots" /\ result.kind # "raise") =>
           /\ Len(wire) = 4
           /\ Len(result.value) = Len(ReplyNo(2).body.items)
           /\ \A i \in DOMAIN result.value :
                  /\ result.value[i].id = ReplyNo(2).body.items[i].fields.id
                  /\ result.value[i].project = ParseAs("Project", ReplyNo(1).body)
    /\ (op = "get_snapshot_metadata" /\ result.kind # "raise") =>
           /\ Len(wire) = 4
           /\ result.value.id = ReplyNo(2).body.fields.id
           /\ result.value.project = ParseAs("Project", ReplyNo(1).body)

C9_Witness ==
    /\ op = "list_snapshots"
    /\ result.kind = "List[SnapshotMetadata]"
    /\ Len(result.value) = 2
    /\ result.value[1].id = "s2"
    /\ result.value[2].id = "s1"
    /\ result.value[1].project = [id |-> args.project_id, name |-> "n2"]

\* C10: open_blob yields an empty stream inside a scope and the stream is
\* closed on every exit path of the scope, normal or by an exception.
C10_StreamClosedOnExit ==
    /\ blob.scope = "inside" => (blob.data = <<>> /\ ~blob.closed)
    /\ blob.scope = "exited" => blob.closed

====
